---- MODULE Spec2Model ----
(***************************************************************************)
(* fallacy-arc: Arc<T> and Weak<T>, thin wrappers (repr(transparent)) over *)
(* std::sync::Arc / std::sync::Weak with a fallible constructor.           *)
(*                                                                         *)
(* Every operation of the wrappers forwards to the wrapped primitive, so   *)
(* an action below is the wrapper's call together with the atomic steps    *)
(* the wrapped primitive performs on the control block                     *)
(* ArcInner { strong, weak, data }.  One step of an action is one atomic   *)
(* access to a counter (or the destructor call, or the deallocation)       *)
(* together with the thread-local computation that follows it.             *)
(***************************************************************************)
EXTENDS Integers, FiniteSets, Sequences, TLC

\* ------------------------------------------------------------------ bounds
\* Control blocks that may ever be allocated.
MaxBlocks == 2
\* Handles (Arc, Weak, empty Weak) the callers keep at one time.
MaxHandles == 3

\* --------------------------------------------------------- program constants
\* Pointer width of the target in bits (usize).  A 16-bit target keeps the
\* counters inside the model checker's integers.
UsizeBits == 16
\* Weak::new() points at no allocation.
Dangling == 0

RECURSIVE Pow2(_)
Pow2(n) == IF n = 0 THEN 1 ELSE 2 * Pow2(n - 1)

UsizeMod == Pow2(UsizeBits)
UsizeMax == UsizeMod - 1
UsizeBytes == UsizeBits \div 8
\* isize::MAX as usize: the guard of the wrapped primitive's counters.
MAX_REFCOUNT == Pow2(UsizeBits - 1) - 1

WrapAdd(n, k) == (n + k) % UsizeMod
WrapSub(n, k) == (n - k + UsizeMod) % UsizeMod

Max(a, b) == IF a >= b THEN a ELSE b
RoundUp(n, a) == ((n + a - 1) \div a) * a

Threads == {"t1", "t2"}
Blocks == 1 .. MaxBlocks
Values == {7, 42}
\* Layout::new::<T>() of the payload types tried: <<size, align>>.
Types == {<<1, 1>>, <<8, 4>>}

\* Layout::new::<T>(): what the wrapper puts into the AllocError.
LayoutOfT(ty) == ty
\* The layout the allocator is asked for: ArcInner<T> = repr(C)
\* { strong: usize, weak: usize, data: T }.
ArcInnerLayout(ty) ==
    LET align == Max(UsizeBytes, ty[2])
        offset == RoundUp(2 * UsizeBytes, ty[2])
    IN  <<RoundUp(offset + ty[1], align), align>>

\* Mutant: the wrapper is built without the std handle (as Weak::new()).
WeakFromStdEmpty(p) == Dangling

\* Arc::from_std / Weak::from_std: the wrapper around the std handle points
\* at the allocation the std handle points at.
ArcFromStd(p) == p
WeakFromStd(p) == p

\* Mutant: a plain store of the incremented value, whatever the counter
\* holds by then.
CasAlwaysSucceeds(current, expected) == TRUE

\* compare_exchange_weak(expected, new): the exchange takes place when the
\* counter still holds the expected value.
CasSucceeds(current, expected) == current = expected

\* Arc::ptr_eq / Weak::ptr_eq: same allocation (two empty Weak are equal).
ptr_eq(a, b) == a = b

VARIABLES
    strong,     \* strong[b]: ArcInner.strong
    weak,       \* weak[b]:   ArcInner.weak (observer handles + 1 implicit)
    data,       \* data[b]:   ArcInner.data
    allocated,  \* allocated[b]: the allocator returned this block
    freed,      \* freed[b]:  number of deallocate calls on the block
    dropped,    \* dropped[b]: number of runs of the payload's destructor
    ctorArg,    \* ctorArg[b]: the value handed to the try_new that made b
    arcs,       \* arcs[b]:   Arc handles to b that exist
    weaks,      \* weaks[b]:  Weak handles to b that exist
    empties,    \* Weak handles made by Weak::new (and their clones)
    leaked,     \* leaked[b]: Arc handles to b given up without a drop
    aborted,    \* the process was aborted
    pc,         \* pc[t]: where thread t is inside its current call
    blk,        \* blk[t]: the block of the handle the call is made on
    reg,        \* reg[t]: the counter value the call read last
    ret,        \* ret[t]: what the call returned
    spurious    \* spurious[t]: a compare_exchange_weak of t's call failed
                \* although the counter held the expected value

vars == <<strong, weak, data, allocated, freed, dropped, ctorArg, arcs, weaks,
          empties, leaked, aborted, pc, blk, reg, ret, spurious>>

shared == <<strong, weak, data, allocated, freed, dropped, ctorArg, arcs,
            weaks, empties, leaked, aborted>>

NoLayout == <<0, 0>>
\* What a call hands back.  arg: where a by-value argument ended ("none":
\* the call took none, "stored": in the new block, "dropped": destroyed
\* inside the call, "caller": handed back to the caller); layout: the layout an AllocError carries; req: the
\* layout the call asked the allocator for.
NoRet == [op |-> "none", res |-> "none", blk |-> Dangling, val |-> 0,
          arg |-> "none", layout |-> NoLayout, req |-> NoLayout]

Result(op, res, b, v) ==
    [op |-> op, res |-> res, blk |-> b, val |-> v,
     arg |-> "none", layout |-> NoLayout, req |-> NoLayout]

Init ==
    /\ strong = [b \in Blocks |-> 0]
    /\ weak = [b \in Blocks |-> 0]
    /\ data = [b \in Blocks |-> 0]
    /\ allocated = [b \in Blocks |-> FALSE]
    /\ freed = [b \in Blocks |-> 0]
    /\ dropped = [b \in Blocks |-> 0]
    /\ ctorArg = [b \in Blocks |-> 0]
    /\ arcs = [b \in Blocks |-> 0]
    /\ weaks = [b \in Blocks |-> 0]
    /\ empties = 0
    /\ leaked = [b \in Blocks |-> 0]
    /\ aborted = FALSE
    /\ pc = [t \in Threads |-> "idle"]
    /\ blk = [t \in Threads |-> Dangling]
    /\ reg = [t \in Threads |-> 0]
    /\ ret = [t \in Threads |-> NoRet]
    /\ spurious = [t \in Threads |-> FALSE]

RECURSIVE SumTo(_, _)
SumTo(f, n) == IF n = 0 THEN 0 ELSE f[n] + SumTo(f, n - 1)

\* The handles that exist, and whether the callers may make one more.
HandleCount == SumTo(arcs, MaxBlocks) + SumTo(weaks, MaxBlocks) + empties
MayCreate == HandleCount < MaxHandles

\* A call may start on thread t.
Idle(t) == ~aborted /\ pc[t] = "idle"
At(t, l) == ~aborted /\ pc[t] = l

\* The call returns r to its caller.
Returns(t, r) ==
    /\ pc' = [pc EXCEPT ![t] = "ret"]
    /\ ret' = [ret EXCEPT ![t] = r]

\* A handle borrowed by a call in progress (&self) cannot be dropped.
ArcBorrowed(b) ==
    \E t \in Threads : pc[t] \in {"dg_cas", "clone_check"} /\ blk[t] = b
WeakBorrowed(b) ==
    \E t \in Threads :
        /\ pc[t] \in {"up_cas", "wc_strong", "ser_cas", "ser_some",
                      "ser_drop_data", "ser_drop_weak"}
        /\ blk[t] = b

\* ---------------------------------------------------------------- try_new
\* Mutant: the block starts without the implicit weak reference and with
\* a default payload.
NewInnerUninit(v) == [strong |-> 1, weak |-> 0, data |-> 0]

\* Mutant: the block starts without the implicit weak reference.
NewInnerNoImplicitWeak(v) == [strong |-> 1, weak |-> 0, data |-> v]

\* The control block a successful allocation is initialised to.
NewInner(v) == [strong |-> 1, weak |-> 1, data |-> v]

\* Blocks are handed out in order; a block's number is its address.
NextBlock == CHOOSE b \in Blocks : ~allocated[b] /\ \A c \in 1 .. b - 1 : allocated[c]

\* The Err of a failed try_new: map_err replaces the allocator's error by
\* AllocError::new(Layout::new::<T>()).
TryNewError(ty) == LayoutOfT(ty)

\* Arc::try_new(data), the allocator succeeding.
TryNewOk(t, v, ty) ==
    /\ Idle(t)
    /\ MayCreate
    /\ \E b \in Blocks : ~allocated[b]
    /\ LET b == NextBlock
           inner == NewInner(v)
       IN  /\ strong' = [strong EXCEPT ![b] = inner.strong]
           /\ weak' = [weak EXCEPT ![b] = inner.weak]
           /\ data' = [data EXCEPT ![b] = inner.data]
           /\ allocated' = [allocated EXCEPT ![b] = TRUE]
           /\ ctorArg' = [ctorArg EXCEPT ![b] = v]
           /\ arcs' = [arcs EXCEPT ![b] = 1]
           /\ blk' = [blk EXCEPT ![t] = b]
           /\ Returns(t, [Result("try_new", "ok", b, 0)
                            EXCEPT !.arg = "stored",
                                   !.req = ArcInnerLayout(ty)])
    /\ UNCHANGED <<freed, dropped, weaks, empties, aborted, reg, leaked>>
    /\ UNCHANGED spurious

\* Mutant: the failed call leaves a block behind that nothing refers to.
TryNewFailLeaks(t, v, ty) ==
    /\ Idle(t)
    /\ \E b \in Blocks : ~allocated[b]
    /\ allocated' = [allocated EXCEPT ![NextBlock] = TRUE]
    /\ blk' = [blk EXCEPT ![t] = Dangling]
    /\ Returns(t, [Result("try_new", "err", Dangling, v)
                     EXCEPT !.arg = "dropped",
                            !.layout = TryNewError(ty),
                            !.req = ArcInnerLayout(ty)])
    /\ UNCHANGED <<strong, weak, data, freed, dropped, ctorArg,
                   arcs, weaks, empties, aborted, reg, leaked>>
    /\ UNCHANGED spurious

\* Arc::try_new(data), the allocator failing: `data` was moved into the call
\* and is destroyed there; the caller gets the error only.
TryNewFail(t, v, ty) ==
    /\ Idle(t)
    /\ blk' = [blk EXCEPT ![t] = Dangling]
    /\ Returns(t, [Result("try_new", "err", Dangling, v)
                     EXCEPT !.arg = "dropped",
                            !.layout = TryNewError(ty),
                            !.req = ArcInnerLayout(ty)])
    /\ UNCHANGED <<strong, weak, data, allocated, freed, dropped, ctorArg,
                   arcs, weaks, empties, aborted, reg, leaked>>
    /\ UNCHANGED spurious

\* -------------------------------------------------------------- Arc: clone
\* Mutant: no overflow guard.
CloneNeverOverflows(old) == FALSE

\* The guard of the wrapped clone: abort when the value before the
\* increment is above MAX_REFCOUNT.
CloneOverflows(old) == old > MAX_REFCOUNT

\* #[derive(Clone)] on Arc: old = strong.fetch_add(1, Relaxed).
ArcClone(t, b) ==
    /\ Idle(t)
    /\ arcs[b] > 0
    /\ MayCreate
    /\ strong' = [strong EXCEPT ![b] = WrapAdd(@, 1)]
    /\ blk' = [blk EXCEPT ![t] = b]
    /\ reg' = [reg EXCEPT ![t] = strong[b]]
    /\ pc' = [pc EXCEPT ![t] = "clone_check"]
    /\ UNCHANGED <<weak, data, allocated, freed, dropped, ctorArg, arcs, weaks,
                   empties, leaked, aborted, ret>>
    /\ UNCHANGED spurious

\* The clone's guard on the value found: abort the process, or hand out the
\* new handle.
ArcCloneCheck(t) ==
    /\ At(t, "clone_check")
    /\ IF CloneOverflows(reg[t])
       THEN /\ aborted' = TRUE
            /\ UNCHANGED <<arcs, pc, ret>>
       ELSE /\ arcs' = [arcs EXCEPT ![blk[t]] = @ + 1]
            /\ Returns(t, Result("clone", "ok", blk[t], 0))
            /\ UNCHANGED aborted
    /\ UNCHANGED <<strong, weak, data, allocated, freed, dropped, ctorArg,
                   weaks, empties, leaked, blk, reg>>
    /\ UNCHANGED spurious

\* An owner gives a handle up without dropping it (core::mem::forget): the
\* counter keeps counting it.
Forget(t, b) ==
    /\ Idle(t)
    /\ arcs[b] > (IF ArcBorrowed(b) THEN 1 ELSE 0)
    /\ arcs' = [arcs EXCEPT ![b] = @ - 1]
    /\ leaked' = [leaked EXCEPT ![b] = @ + 1]
    /\ UNCHANGED <<strong, weak, data, allocated, freed, dropped, ctorArg,
                   weaks, empties, aborted, pc, blk, reg, ret>>
    /\ UNCHANGED spurious

\* --------------------------------------------------------------- Arc: drop
\* Mutant: the last-owner test is off by one.
IsLastStrongOffByOne(old) == old <= 2

\* The drop that found this value in strong.fetch_sub(1, Release) is the
\* last one: it destroys the payload.
IsLastStrong(old) == old = 1

\* Mutant: the storage is freed by whoever drops an observer reference
\* while at most one other reference is left.
IsLastWeakOffByOne(old) == old <= 2

\* The drop that found this value in weak.fetch_sub(1, Release) frees the
\* block's storage.
IsLastWeak(old) == old = 1

\* Drop of an Arc: strong.fetch_sub(1, Release); unless it was the last,
\* return.
ArcDrop(t, b) ==
    /\ Idle(t)
    /\ arcs[b] > (IF ArcBorrowed(b) THEN 1 ELSE 0)
    /\ arcs' = [arcs EXCEPT ![b] = @ - 1]
    /\ strong' = [strong EXCEPT ![b] = WrapSub(@, 1)]
    /\ blk' = [blk EXCEPT ![t] = b]
    /\ IF IsLastStrong(strong[b])
       THEN /\ pc' = [pc EXCEPT ![t] = "drop_data"]
            /\ UNCHANGED ret
       ELSE Returns(t, Result("drop", "ok", b, 0))
    /\ UNCHANGED <<weak, data, allocated, freed, dropped, ctorArg, weaks,
                   empties, aborted, reg, leaked>>
    /\ UNCHANGED spurious

\* Mutant: the last drop releases the implicit reference without running
\* the payload's destructor.
ArcDropDataSkips(t) ==
    /\ At(t, "drop_data")
    /\ pc' = [pc EXCEPT ![t] = "drop_weak"]
    /\ UNCHANGED <<strong, weak, data, allocated, freed, dropped, ctorArg, arcs,
                   weaks, empties, aborted, blk, reg, ret, leaked>>
    /\ UNCHANGED spurious

\* drop_slow, first half: (acquire fence) the payload's destructor runs.
ArcDropData(t) ==
    /\ At(t, "drop_data")
    /\ dropped' = [dropped EXCEPT ![blk[t]] = @ + 1]
    /\ pc' = [pc EXCEPT ![t] = "drop_weak"]
    /\ UNCHANGED <<strong, weak, data, allocated, freed, ctorArg, arcs, weaks,
                   empties, aborted, blk, reg, ret, leaked>>
    /\ UNCHANGED spurious

\* Mutant: the last Arc drop releases the implicit reference and leaves the
\* storage to the observers' drops.
ArcDropWeakNeverFrees(t) ==
    /\ At(t, "drop_weak")
    /\ weak' = [weak EXCEPT ![blk[t]] = WrapSub(@, 1)]
    /\ Returns(t, Result("drop", "ok", blk[t], 0))
    /\ UNCHANGED <<strong, data, allocated, freed, dropped, ctorArg, arcs,
                   weaks, empties, aborted, blk, reg, leaked>>
    /\ UNCHANGED spurious

\* drop_slow, second half: the implicit weak reference of the owning
\* handles is released: weak.fetch_sub(1, Release).
ArcDropWeak(t) ==
    /\ At(t, "drop_weak")
    /\ weak' = [weak EXCEPT ![blk[t]] = WrapSub(@, 1)]
    /\ IF IsLastWeak(weak[blk[t]])
       THEN /\ pc' = [pc EXCEPT ![t] = "dealloc_arc"]
            /\ UNCHANGED ret
       ELSE Returns(t, Result("drop", "ok", blk[t], 0))
    /\ UNCHANGED <<strong, data, allocated, freed, dropped, ctorArg, arcs,
                   weaks, empties, aborted, blk, reg, leaked>>
    /\ UNCHANGED spurious

\* The block's storage goes back to the allocator.
Dealloc(t) ==
    /\ ~aborted
    /\ pc[t] \in {"dealloc_arc", "dealloc_weak"}
    /\ freed' = [freed EXCEPT ![blk[t]] = @ + 1]
    /\ Returns(t, Result(IF pc[t] = "dealloc_arc" THEN "drop" ELSE "drop_weak",
                         "ok", blk[t], 0))
    /\ UNCHANGED <<strong, weak, data, allocated, dropped, ctorArg, arcs,
                   weaks, empties, aborted, blk, reg, leaked>>
    /\ UNCHANGED spurious

\* ---------------------------------------------------------- Arc: downgrade
\* The caller receives a Weak pointing at w.
NewWeak(w) ==
    IF w = Dangling
    THEN empties' = empties + 1 /\ UNCHANGED weaks
    ELSE weaks' = [weaks EXCEPT ![w] = @ + 1] /\ UNCHANGED empties

\* Arc::downgrade(this), first read: cur = weak.load(Relaxed).
Downgrade(t, b) ==
    /\ Idle(t)
    /\ arcs[b] > 0
    /\ MayCreate
    /\ blk' = [blk EXCEPT ![t] = b]
    /\ reg' = [reg EXCEPT ![t] = weak[b]]
    /\ pc' = [pc EXCEPT ![t] = "dg_cas"]
    /\ UNCHANGED <<shared, ret>>
    /\ UNCHANGED spurious

\* Arc::downgrade, the loop body: a locked counter (usize::MAX) is read
\* again; a counter above MAX_REFCOUNT panics; otherwise
\* weak.compare_exchange_weak(cur, cur + 1, Acquire, Relaxed), and on
\* failure the loop goes on with the value found.
DowngradeCas(t) ==
    /\ At(t, "dg_cas")
    /\ LET b == blk[t]
           cur == reg[t]
       IN  IF cur = UsizeMax
           THEN /\ reg' = [reg EXCEPT ![t] = weak[b]]
                /\ UNCHANGED <<weak, weaks, empties, pc, ret>>
           ELSE IF cur > MAX_REFCOUNT
           THEN /\ Returns(t, Result("downgrade", "panic", b, 0))
                /\ UNCHANGED <<weak, weaks, empties, reg>>
           ELSE IF CasSucceeds(weak[b], cur)
           THEN /\ weak' = [weak EXCEPT ![b] = cur + 1]
                /\ NewWeak(WeakFromStd(b))
                /\ Returns(t, Result("downgrade", "ok", WeakFromStd(b), 0))
                /\ UNCHANGED reg
           ELSE /\ reg' = [reg EXCEPT ![t] = weak[b]]
                /\ UNCHANGED <<weak, weaks, empties, pc, ret>>
    /\ UNCHANGED <<strong, data, allocated, freed, dropped, ctorArg, arcs,
                   aborted, blk, leaked>>
    /\ UNCHANGED spurious

\* -------------------------------------------------------------- Weak::new
\* Weak::new(): no allocation, no counter.
WeakNew(t) ==
    /\ Idle(t)
    /\ MayCreate
    /\ empties' = empties + 1
    /\ blk' = [blk EXCEPT ![t] = Dangling]
    /\ Returns(t, Result("new", "ok", Dangling, 0))
    /\ UNCHANGED <<strong, weak, data, allocated, freed, dropped, ctorArg,
                   arcs, weaks, aborted, reg, leaked>>
    /\ UNCHANGED spurious

\* ------------------------------------------------------------- Weak: clone
\* #[derive(Clone)] on Weak: an empty handle is copied; otherwise
\* weak.fetch_add(1, Relaxed) and the overflow guard.
WeakClone(t, w) ==
    /\ Idle(t)
    /\ blk' = [blk EXCEPT ![t] = w]
    /\ IF w = Dangling
       THEN /\ empties > 0
            /\ MayCreate
            /\ empties' = empties + 1
            /\ Returns(t, Result("clone_weak", "ok", w, 0))
            /\ UNCHANGED <<weak, weaks, aborted>>
       ELSE /\ weaks[w] > 0
            /\ MayCreate
            /\ weak' = [weak EXCEPT ![w] = WrapAdd(@, 1)]
            /\ IF CloneOverflows(weak[w])
               THEN /\ aborted' = TRUE
                    /\ UNCHANGED <<weaks, pc, ret>>
               ELSE /\ weaks' = [weaks EXCEPT ![w] = @ + 1]
                    /\ Returns(t, Result("clone_weak", "ok", w, 0))
                    /\ UNCHANGED aborted
            /\ UNCHANGED empties
    /\ UNCHANGED <<strong, data, allocated, freed, dropped, ctorArg, arcs,
                   reg, leaked>>
    /\ UNCHANGED spurious

\* -------------------------------------------------------------- Weak: drop
\* Drop of a Weak: nothing for an empty handle; otherwise
\* weak.fetch_sub(1, Release), and the one that found 1 frees the storage.
WeakDrop(t, w) ==
    /\ Idle(t)
    /\ blk' = [blk EXCEPT ![t] = w]
    /\ IF w = Dangling
       THEN /\ empties > 0
            /\ empties' = empties - 1
            /\ Returns(t, Result("drop_weak", "ok", w, 0))
            /\ UNCHANGED <<weak, weaks>>
       ELSE /\ weaks[w] > (IF WeakBorrowed(w) THEN 1 ELSE 0)
            /\ weaks' = [weaks EXCEPT ![w] = @ - 1]
            /\ weak' = [weak EXCEPT ![w] = WrapSub(@, 1)]
            /\ IF IsLastWeak(weak[w])
               THEN /\ pc' = [pc EXCEPT ![t] = "dealloc_weak"]
                    /\ UNCHANGED ret
               ELSE Returns(t, Result("drop_weak", "ok", w, 0))
            /\ UNCHANGED empties
    /\ UNCHANGED <<strong, data, allocated, freed, dropped, ctorArg, arcs,
                   aborted, reg, leaked>>
    /\ UNCHANGED spurious

\* ----------------------------------------------------------- Weak::upgrade
\* Mutant: the increment without the zero check (a plain fetch_add).
unchecked_increment(n) == IF n > MAX_REFCOUNT THEN "overflow" ELSE "some"

\* checked_increment(n) of the wrapped upgrade: what the loop does with the
\* value n it holds.
checked_increment(n) ==
    IF n = 0 THEN "none"
    ELSE IF n > MAX_REFCOUNT THEN "overflow"
    ELSE "some"

\* Weak::upgrade(&self): None at once for an empty handle; otherwise the
\* first read of strong (fetch_update's load).
Upgrade(t, w) ==
    /\ Idle(t)
    /\ blk' = [blk EXCEPT ![t] = w]
    /\ IF w = Dangling
       THEN /\ empties > 0
            /\ Returns(t, Result("upgrade", "none", w, 0))
            /\ UNCHANGED reg
       ELSE /\ weaks[w] > 0
            /\ MayCreate
            /\ reg' = [reg EXCEPT ![t] = strong[w]]
            /\ pc' = [pc EXCEPT ![t] = "up_cas"]
            /\ UNCHANGED ret
    /\ UNCHANGED shared
    /\ UNCHANGED spurious

\* Mutant: the upgrade increments first (fetch_add) and looks at the value
\* it found afterwards.
UpgradeFetchAdd(t) ==
    /\ At(t, "up_cas")
    /\ LET b == blk[t]
       IN  /\ strong' = [strong EXCEPT ![b] = WrapAdd(@, 1)]
           /\ IF strong[b] = 0
              THEN /\ Returns(t, Result("upgrade", "none", b, 0))
                   /\ UNCHANGED arcs
              ELSE /\ arcs' = [arcs EXCEPT ![b] = @ + 1]
                   /\ Returns(t, Result("upgrade", "some", b, 0))
    /\ UNCHANGED <<weak, data, allocated, freed, dropped, ctorArg, weaks,
                   empties, leaked, blk, reg, aborted>>
    /\ UNCHANGED spurious

\* Mutant: the loop gives up at the first failed compare-and-swap and
\* reports no value.
UpgradeCasGivesUp(t) ==
    /\ At(t, "up_cas")
    /\ LET b == blk[t]
           n == reg[t]
       IN  IF checked_increment(n) = "some" /\ CasSucceeds(strong[b], n)
           THEN /\ strong' = [strong EXCEPT ![b] = WrapAdd(n, 1)]
                /\ arcs' = [arcs EXCEPT ![ArcFromStd(b)] = @ + 1]
                /\ Returns(t, Result("upgrade", "some", ArcFromStd(b), 0))
           ELSE /\ Returns(t, Result("upgrade", "none", b, 0))
                /\ UNCHANGED <<strong, arcs>>
    /\ UNCHANGED <<weak, data, allocated, freed, dropped, ctorArg, weaks,
                   empties, leaked, blk, reg, aborted, spurious>>

\* Weak::upgrade, the loop body: checked_increment on the value held (a
\* value above MAX_REFCOUNT stops the call: a panic or an abort, by the
\* version of the wrapped primitive), then
\* strong.compare_exchange_weak(n, n + 1, Acquire, Relaxed); on failure the
\* loop goes on with the value found.  The result maps through
\* Arc::from_std.
UpgradeCas(t) ==
    /\ At(t, "up_cas")
    /\ LET b == blk[t]
           n == reg[t]
           step == checked_increment(n)
       IN  IF step = "none"
           THEN /\ Returns(t, Result("upgrade", "none", b, 0))
                /\ UNCHANGED <<strong, arcs, reg, aborted>>
           ELSE IF step = "overflow"
           THEN /\ \/ /\ Returns(t, Result("upgrade", "panic", b, 0))
                      /\ UNCHANGED aborted
                   \/ /\ aborted' = TRUE
                      /\ UNCHANGED <<pc, ret>>
                /\ UNCHANGED <<strong, arcs, reg>>
           ELSE IF CasSucceeds(strong[b], n)
           THEN /\ strong' = [strong EXCEPT ![b] = WrapAdd(n, 1)]
                /\ arcs' = [arcs EXCEPT ![ArcFromStd(b)] = @ + 1]
                /\ Returns(t, Result("upgrade", "some", ArcFromStd(b), 0))
                /\ UNCHANGED <<reg, aborted>>
           ELSE /\ reg' = [reg EXCEPT ![t] = strong[b]]
                /\ UNCHANGED <<strong, arcs, pc, ret, aborted>>
    /\ UNCHANGED <<weak, data, allocated, freed, dropped, ctorArg, weaks,
                   empties, leaked, blk>>
    /\ UNCHANGED spurious

\* Weak::upgrade, the compare-and-swap is the weak one
\* (compare_exchange_weak): it may fail although the counter holds the
\* expected value.  The loop goes on with the value found, which is the one
\* it held; nothing but the call's own course changes.
UpgradeCasSpurious(t) ==
    /\ At(t, "up_cas")
    /\ checked_increment(reg[t]) = "some"
    /\ strong[blk[t]] = reg[t]
    /\ spurious' = [spurious EXCEPT ![t] = TRUE]
    /\ UNCHANGED <<shared, pc, blk, reg, ret>>

\* ----------------------------------------------------- accessors and deref
\* Arc::strong_count(this): strong.load.
ArcStrongCountOf(b) == strong[b]

\* Mutant: the counter is returned as it is, the implicit reference of the
\* owning handles included.
ArcWeakCountRaw(b) == weak[b]

\* Arc::weak_count(this): weak.load; a locked counter reads as 0, any other
\* without the implicit reference of the owning handles.
ArcWeakCountOf(b) == IF weak[b] = UsizeMax THEN 0 ELSE weak[b] - 1

\* Mutant: the empty handle is not told apart and reports one owner.
WeakStrongCountNoEmpty(w) == IF w = Dangling THEN 1 ELSE strong[w]

\* Weak::strong_count(&self): 0 for an empty handle, else strong.load.
WeakStrongCountOf(w) == IF w = Dangling THEN 0 ELSE strong[w]

\* Mutant: the strong counter is not looked at.
WeakWeakCountNoStrongTest(w, s) == w - 1

\* Weak::weak_count(&self), the value returned from the two loads.
WeakWeakCountOf(w, s) == IF s = 0 THEN 0 ELSE w - 1

ArcStrongCount(t, b) ==
    /\ Idle(t)
    /\ arcs[b] > 0
    /\ blk' = [blk EXCEPT ![t] = b]
    /\ Returns(t, Result("strong_count", "ok", b, ArcStrongCountOf(b)))
    /\ UNCHANGED <<shared, reg>>
    /\ UNCHANGED spurious

ArcWeakCount(t, b) ==
    /\ Idle(t)
    /\ arcs[b] > 0
    /\ blk' = [blk EXCEPT ![t] = b]
    /\ Returns(t, Result("weak_count", "ok", b, ArcWeakCountOf(b)))
    /\ UNCHANGED <<shared, reg>>
    /\ UNCHANGED spurious

WeakStrongCount(t, w) ==
    /\ Idle(t)
    /\ IF w = Dangling THEN empties > 0 ELSE weaks[w] > 0
    /\ blk' = [blk EXCEPT ![t] = w]
    /\ Returns(t, Result("weak_strong_count", "ok", w, WeakStrongCountOf(w)))
    /\ UNCHANGED <<shared, reg>>
    /\ UNCHANGED spurious

\* Weak::weak_count(&self): 0 at once for an empty handle; otherwise the
\* first load, weak.load(Acquire).
WeakWeakCount(t, w) ==
    /\ Idle(t)
    /\ blk' = [blk EXCEPT ![t] = w]
    /\ IF w = Dangling
       THEN /\ empties > 0
            /\ Returns(t, Result("weak_weak_count", "ok", w, 0))
            /\ UNCHANGED reg
       ELSE /\ weaks[w] > 0
            /\ reg' = [reg EXCEPT ![t] = weak[w]]
            /\ pc' = [pc EXCEPT ![t] = "wc_strong"]
            /\ UNCHANGED ret
    /\ UNCHANGED shared
    /\ UNCHANGED spurious

\* Weak::weak_count, the second load, strong.load(Relaxed), and the result.
WeakWeakCountStrong(t) ==
    /\ At(t, "wc_strong")
    /\ Returns(t, Result("weak_weak_count", "ok", blk[t],
                         WeakWeakCountOf(reg[t], strong[blk[t]])))
    /\ UNCHANGED <<shared, blk, reg>>
    /\ UNCHANGED spurious

\* Deref for Arc (and AsRef): a reference to the payload.
Deref(t, b) ==
    /\ Idle(t)
    /\ arcs[b] > 0
    /\ blk' = [blk EXCEPT ![t] = b]
    /\ Returns(t, Result("deref", "ok", b, data[b]))
    /\ UNCHANGED <<shared, reg>>
    /\ UNCHANGED spurious

\* The caller takes the result; the thread is free for its next call.
Return(t) ==
    /\ At(t, "ret")
    /\ pc' = [pc EXCEPT ![t] = "idle"]
    /\ ret' = [ret EXCEPT ![t] = NoRet]
    /\ blk' = [blk EXCEPT ![t] = Dangling]
    /\ reg' = [reg EXCEPT ![t] = 0]
    /\ spurious' = [spurious EXCEPT ![t] = FALSE]
    /\ UNCHANGED shared

\* ------------------------------------------------------------ specification
Targets == Blocks \cup {Dangling}

Next ==
    \E t \in Threads :
        \/ \E v \in Values, ty \in Types : TryNewOk(t, v, ty)
        \/ \E v \in Values, ty \in Types : TryNewFail(t, v, ty)
        \/ \E b \in Blocks : ArcClone(t, b)
        \/ ArcCloneCheck(t)
        \/ \E b \in Blocks : ArcDrop(t, b)
        \/ ArcDropData(t)
        \/ ArcDropWeak(t)
        \/ Dealloc(t)
        \/ \E b \in Blocks : Downgrade(t, b)
        \/ DowngradeCas(t)
        \/ WeakNew(t)
        \/ \E w \in Targets : WeakClone(t, w)
        \/ \E w \in Targets : WeakDrop(t, w)
        \/ \E w \in Targets : Upgrade(t, w)
        \/ UpgradeCas(t)
        \/ \E b \in Blocks : ArcStrongCount(t, b)
        \/ \E b \in Blocks : ArcWeakCount(t, b)
        \/ \E w \in Targets : WeakStrongCount(t, w)
        \/ \E w \in Targets : WeakWeakCount(t, w)
        \/ WeakWeakCountStrong(t)
        \/ \E b \in Blocks : Deref(t, b)
        \/ Return(t)

Spec == Init /\ [][Next]_vars

\* ------------------------------------------- specification: counter overflow
\* The guards of the counters act only near MAX_REFCOUNT, where a program
\* gets by giving up handles without dropping them.  This specification
\* starts there: one block whose owners have leaked all but one handle.
OverflowStarts == {MAX_REFCOUNT - 2, MAX_REFCOUNT - 1}

InitOverflow ==
    \E k \in OverflowStarts :
        /\ strong = [b \in Blocks |-> IF b = 1 THEN k + 1 ELSE 0]
        /\ weak = [b \in Blocks |-> IF b = 1 THEN 1 ELSE 0]
        /\ data = [b \in Blocks |-> IF b = 1 THEN 42 ELSE 0]
        /\ allocated = [b \in Blocks |-> b = 1]
        /\ freed = [b \in Blocks |-> 0]
        /\ dropped = [b \in Blocks |-> 0]
        /\ ctorArg = [b \in Blocks |-> IF b = 1 THEN 42 ELSE 0]
        /\ arcs = [b \in Blocks |-> IF b = 1 THEN 1 ELSE 0]
        /\ weaks = [b \in Blocks |-> 0]
        /\ empties = 0
        /\ leaked = [b \in Blocks |-> IF b = 1 THEN k ELSE 0]
        /\ aborted = FALSE
        /\ pc = [t \in Threads |-> "idle"]
        /\ blk = [t \in Threads |-> Dangling]
        /\ reg = [t \in Threads |-> 0]
        /\ ret = [t \in Threads |-> NoRet]
        /\ spurious = [t \in Threads |-> FALSE]

\* The calls that touch the strong counter, and the leak.  (The counter
\* stays far from 0 here, so no drop is the last one.)
NextOverflow ==
    \E t \in Threads :
        \/ \E b \in Blocks : ArcClone(t, b)
        \/ ArcCloneCheck(t)
        \/ \E b \in Blocks : Forget(t, b)
        \/ \E b \in Blocks : ArcDrop(t, b)
        \/ \E b \in Blocks : Downgrade(t, b)
        \/ DowngradeCas(t)
        \/ \E w \in Blocks : WeakDrop(t, w)
        \/ \E w \in Blocks : Upgrade(t, w)
        \/ UpgradeCas(t)
        \/ \E b \in Blocks : ArcStrongCount(t, b)
        \/ Return(t)

SpecOverflow == InitOverflow /\ [][NextOverflow]_vars

\* ------------------------------------------------------------------ serde
\* What the serializer is given for the Option<Arc<T>> of an upgrade: the
\* absence marker, or the payload.
SerializeOption(res, v) ==
    [tag |-> res, val |-> IF res = "some" THEN v ELSE 0]

\* An input that is not the encoding of an Option<T>.
Malformed == [tag |-> "bad", val |-> 0]
Encodings ==
    {SerializeOption(r, v) : r \in {"none", "some"}, v \in Values}
        \cup {Malformed}

\* Mutant: a decoded payload is given a block of its own and the handle
\* points at it.
DeserializeWeakKeeps(enc) ==
    IF enc.tag = "bad" THEN [res |-> "err", handle |-> Dangling]
    ELSE [res |-> "ok", handle |-> IF enc.tag = "some" THEN 1 ELSE Dangling]

\* Deserialize for Weak: Option::<T>::deserialize(..)?, whose value is
\* discarded, then Ok(Weak::new()).
DeserializeWeak(enc) ==
    IF enc.tag = "bad" THEN [res |-> "err", handle |-> Dangling]
    ELSE [res |-> "ok", handle |-> Dangling]

\* Serialize for Weak, self.upgrade(): None at once for an empty handle,
\* which is written as the absence marker; otherwise the first read of
\* strong.
Serialize(t, w) ==
    /\ Idle(t)
    /\ blk' = [blk EXCEPT ![t] = w]
    /\ IF w = Dangling
       THEN /\ empties > 0
            /\ LET e == SerializeOption("none", 0)
               IN  Returns(t, Result("serialize", e.tag, w, e.val))
            /\ UNCHANGED reg
       ELSE /\ weaks[w] > 0
            /\ reg' = [reg EXCEPT ![t] = strong[w]]
            /\ pc' = [pc EXCEPT ![t] = "ser_cas"]
            /\ UNCHANGED ret
    /\ UNCHANGED <<shared, spurious>>

\* Serialize, the loop of its upgrade: as UpgradeCas; None is written as
\* the absence marker, Some(arc) is a temporary owning handle the call
\* holds.
SerializeCas(t) ==
    /\ At(t, "ser_cas")
    /\ LET b == blk[t]
           n == reg[t]
           step == checked_increment(n)
       IN  IF step = "none"
           THEN /\ LET e == SerializeOption("none", 0)
                   IN  Returns(t, Result("serialize", e.tag, b, e.val))
                /\ UNCHANGED <<strong, reg, aborted>>
           ELSE IF step = "overflow"
           THEN /\ \/ /\ Returns(t, Result("serialize", "panic", b, 0))
                      /\ UNCHANGED aborted
                   \/ /\ aborted' = TRUE
                      /\ UNCHANGED <<pc, ret>>
                /\ UNCHANGED <<strong, reg>>
           ELSE IF CasSucceeds(strong[b], n)
           THEN /\ strong' = [strong EXCEPT ![b] = WrapAdd(n, 1)]
                /\ pc' = [pc EXCEPT ![t] = "ser_some"]
                /\ UNCHANGED <<reg, ret, aborted>>
           ELSE /\ reg' = [reg EXCEPT ![t] = strong[b]]
                /\ UNCHANGED <<strong, pc, ret, aborted>>
    /\ UNCHANGED <<weak, data, allocated, freed, dropped, ctorArg, arcs, weaks,
                   empties, leaked, blk, spurious>>

\* Serialize, Some(arc).serialize(serializer): the payload is written
\* through the temporary handle, and the temporary handle is dropped at the
\* end of the statement: strong.fetch_sub(1, Release); unless it was the
\* last owning handle, the call returns.
SerializeSome(t) ==
    /\ At(t, "ser_some")
    /\ LET b == blk[t]
           e == SerializeOption("some", data[b])
       IN  /\ strong' = [strong EXCEPT ![b] = WrapSub(@, 1)]
           /\ reg' = [reg EXCEPT ![t] = e.val]
           /\ IF IsLastStrong(strong[b])
              THEN /\ pc' = [pc EXCEPT ![t] = "ser_drop_data"]
                   /\ UNCHANGED ret
              ELSE Returns(t, Result("serialize", e.tag, b, e.val))
    /\ UNCHANGED <<weak, data, allocated, freed, dropped, ctorArg, arcs, weaks,
                   empties, leaked, aborted, blk, spurious>>

\* Serialize, the temporary handle was the last owner: the payload's
\* destructor runs.
SerializeDropData(t) ==
    /\ At(t, "ser_drop_data")
    /\ dropped' = [dropped EXCEPT ![blk[t]] = @ + 1]
    /\ pc' = [pc EXCEPT ![t] = "ser_drop_weak"]
    /\ UNCHANGED <<strong, weak, data, allocated, freed, ctorArg, arcs, weaks,
                   empties, leaked, aborted, blk, reg, ret, spurious>>

\* Serialize, the temporary handle was the last owner: the implicit weak
\* reference is released (the handle the call was made on keeps the
\* storage allocated) and the call returns.
SerializeDropWeak(t) ==
    /\ At(t, "ser_drop_weak")
    /\ LET b == blk[t]
       IN  /\ weak' = [weak EXCEPT ![b] = WrapSub(@, 1)]
           /\ freed' = [freed EXCEPT ![b] =
                           IF IsLastWeak(weak[b]) THEN @ + 1 ELSE @]
           /\ Returns(t, Result("serialize", "some", b, reg[t]))
    /\ UNCHANGED <<strong, data, allocated, dropped, ctorArg, arcs, weaks,
                   empties, leaked, aborted, blk, reg, spurious>>

\* Deserialize for Weak on the input enc: an error for a malformed input;
\* otherwise the decoded Option<T> is discarded and the caller gets
\* Weak::new().
Deserialize(t, enc) ==
    /\ Idle(t)
    /\ LET d == DeserializeWeak(enc)
       IN  /\ blk' = [blk EXCEPT ![t] = d.handle]
           /\ IF d.res = "err"
              THEN /\ Returns(t, Result("deserialize", "err", d.handle, 0))
                   /\ UNCHANGED <<weaks, empties>>
              ELSE /\ MayCreate
                   /\ NewWeak(d.handle)
                   /\ Returns(t, [Result("deserialize", "ok", d.handle, enc.val)
                                    EXCEPT !.arg = IF enc.tag = "some"
                                                   THEN "dropped" ELSE "none"])
    /\ UNCHANGED <<strong, weak, data, allocated, freed, dropped, ctorArg,
                   arcs, leaked, aborted, reg, spurious>>

\* --------------------------------------------------- specification: serde
\* The crate built with the feature serde: the encoding and decoding of
\* observer handles among the calls that make, drop and inspect handles.
NextSerde ==
    \E t \in Threads :
        \/ \E v \in Values, ty \in Types : TryNewOk(t, v, ty)
        \/ \E b \in Blocks : ArcDrop(t, b)
        \/ ArcDropData(t)
        \/ ArcDropWeak(t)
        \/ Dealloc(t)
        \/ \E b \in Blocks : Downgrade(t, b)
        \/ DowngradeCas(t)
        \/ \E w \in Targets : WeakDrop(t, w)
        \/ \E w \in Targets : Upgrade(t, w)
        \/ UpgradeCas(t)
        \/ \E w \in Targets : WeakStrongCount(t, w)
        \/ \E w \in Targets : WeakWeakCount(t, w)
        \/ WeakWeakCountStrong(t)
        \/ \E w \in Targets : Serialize(t, w)
        \/ SerializeCas(t)
        \/ SerializeSome(t)
        \/ SerializeDropData(t)
        \/ SerializeDropWeak(t)
        \/ \E enc \in Encodings : Deserialize(t, enc)
        \/ Return(t)

SpecSerde == Init /\ [][NextSerde]_vars

\* ------------------------------------------ specification: the retry loop
\* The calls that change the strong counter, upgrade with the spurious
\* failures of its compare-and-swap, and what it takes to get handles; the
\* loop never looks at the payload, so one payload value is enough.  (In
\* Spec a spurious failure changes no variable of the program: it is a
\* stuttering step there.)
NextRetry ==
    \E t \in Threads :
        \/ \E ty \in Types : TryNewOk(t, 42, ty)
        \/ \E b \in Blocks : ArcClone(t, b)
        \/ ArcCloneCheck(t)
        \/ \E b \in Blocks : ArcDrop(t, b)
        \/ ArcDropData(t)
        \/ ArcDropWeak(t)
        \/ Dealloc(t)
        \/ \E b \in Blocks : Downgrade(t, b)
        \/ DowngradeCas(t)
        \/ \E w \in Blocks : WeakDrop(t, w)
        \/ \E w \in Blocks : Upgrade(t, w)
        \/ UpgradeCas(t)
        \/ UpgradeCasSpurious(t)
        \/ Return(t)

\* A thread inside the loop is scheduled again and again, and the weak
\* compare-and-swap does not fail for ever on a counter that holds the
\* expected value: the loop body with the strong compare-and-swap is
\* eventually taken.
FairRetry == \A t \in Threads : WF_vars(UpgradeCas(t))

SpecRetry == Init /\ [][NextRetry]_vars /\ FairRetry

\* ================================================================== claims
\* A call on block b is between its first and its last step.
InFlight(t, b) == blk[t] = b /\ pc[t] \notin {"idle", "ret"}
Destroying(b) == \E t \in Threads : blk[t] = b /\ pc[t] = "drop_data"
Releasing(b) ==
    \E t \in Threads :
        blk[t] = b /\ pc[t] \in {"drop_data", "drop_weak", "dealloc_arc", "dealloc_weak"}

\* Thread t takes the last step of a call in this step.
Completes(t) == pc[t] # "ret" /\ pc'[t] = "ret"

\* C1: under every interleaving of Arc clones and drops, the payload's
\* destructor runs at most once, never while an owning handle exists, and
\* it has run exactly once when no owning handle is left and no last drop is
\* still about to run it.
C1_PayloadDroppedOnce ==
    \A b \in Blocks :
        /\ dropped[b] <= 1
        /\ dropped[b] >= 1 => arcs[b] = 0
        /\ Destroying(b) => arcs[b] = 0
        /\ (allocated[b] /\ arcs[b] = 0 /\ ~Destroying(b)) => dropped[b] = 1

\* Two threads have each dropped an owning handle of the same block (so the
\* first handle had been cloned) and the destructor has run once.
C1_Witness ==
    \E b \in Blocks :
        /\ \A t \in Threads : ret[t].op = "drop" /\ ret[t].blk = b
        /\ dropped[b] = 1
        /\ arcs[b] = 0

\* C2: the block's storage is deallocated at most once, only when no
\* owning handle, no observer handle and no call in progress refers to it,
\* and it has been deallocated once every handle is gone and no drop is
\* still running.
C2_DeallocatedOnce ==
    \A b \in Blocks :
        /\ freed[b] <= 1
        /\ freed[b] >= 1 =>
              /\ arcs[b] = 0
              /\ weaks[b] = 0
              /\ dropped[b] = 1
              /\ \A t \in Threads : ~InFlight(t, b)
        /\ (allocated[b] /\ arcs[b] = 0 /\ weaks[b] = 0 /\ ~Releasing(b))
              => freed[b] = 1

\* The last Arc drop and the last Weak drop of one block ran on two threads
\* and both have returned: the storage was freed once.
C2_Witness ==
    \E b \in Blocks, t, u \in Threads :
        /\ ret[t].op = "drop" /\ ret[t].blk = b
        /\ ret[u].op = "drop_weak" /\ ret[u].blk = b
        /\ freed[b] = 1

\* C3: an upgrade returns Some exactly when strong > 0 at the step it takes
\* effect; then strong grows by one and the payload has not been and is not
\* being destroyed; no step takes the strong counter of a block from 0 to a
\* positive value, and no owning handle refers to a destroyed payload.
C3_UpgradeNeverResurrects ==
    [][ /\ \A t \in Threads :
              (pc[t] = "up_cas" /\ Completes(t)) =>
                  LET b == blk[t] IN
                  /\ (ret'[t].res = "some") <=> (strong[b] > 0)
                  /\ ret'[t].res = "some" =>
                        /\ strong'[b] = strong[b] + 1
                        /\ dropped'[b] = 0
                        /\ ~Destroying(b)
                  /\ ret'[t].res # "some" => strong'[b] = strong[b]
        /\ \A b \in Blocks :
              /\ (allocated[b] /\ strong[b] = 0) => strong'[b] = 0
              /\ arcs'[b] > 0 => dropped'[b] = 0
      ]_vars

\* An upgrade has returned None while the last Arc drop of the same block
\* is between its decrement and the destructor call.
C3_Witness ==
    \E t, u \in Threads :
        /\ ret[t].op = "upgrade" /\ ret[t].res = "none" /\ ret[t].blk \in Blocks
        /\ pc[u] = "drop_data" /\ blk[u] = ret[t].blk

\* C4: once every owning handle of a block has been dropped none exists
\* ever again, and every upgrade that returns from then on returns None.
C4_UpgradeAfterLastDropIsNone ==
    [][ \A b \in Blocks :
          (allocated[b] /\ arcs[b] = 0) =>
              /\ arcs'[b] = 0
              /\ \A t \in Threads :
                    (blk[t] = b /\ pc[t] = "up_cas" /\ Completes(t))
                        => ret'[t].res = "none"
      ]_vars

\* The scenario's end: the block built for 42 has lost every owning handle,
\* its payload is destroyed, an observer handle is left and its upgrade has
\* returned None.
C4_Witness ==
    \E t \in Threads, b \in Blocks :
        /\ ret[t].op = "upgrade" /\ ret[t].res = "none" /\ ret[t].blk = b
        /\ ctorArg[b] = 42
        /\ arcs[b] = 0 /\ weaks[b] > 0 /\ dropped[b] = 1

\* C5: a try_new whose allocation succeeds returns a handle to a block that
\* did not exist before, with strong = 1 and weak = 1, and every dereference
\* of a handle yields the value its block was constructed with.
C5_TryNewOk ==
    [][ \A t \in Threads :
          /\ (Completes(t) /\ ret'[t].op = "try_new" /\ ret'[t].res = "ok") =>
                LET b == ret'[t].blk IN
                /\ b \in Blocks
                /\ ~allocated[b] /\ allocated'[b]
                /\ strong'[b] = 1
                /\ weak'[b] = 1
                /\ arcs'[b] = 1
                /\ data'[b] = ctorArg'[b]
          /\ (Completes(t) /\ ret'[t].op = "deref") =>
                /\ ret'[t].res = "ok"
                /\ ret'[t].val = ctorArg[ret'[t].blk]
      ]_vars

\* A handle to a block constructed with 42 has been dereferenced and gave 42
\* while the other thread's try_new has just returned a fresh block.
C5_Witness ==
    \E t, u \in Threads :
        /\ ret[t].op = "deref" /\ ret[t].val = 42 /\ ctorArg[ret[t].blk] = 42
        /\ ret[u].op = "try_new" /\ ret[u].res = "ok"
        /\ strong[ret[u].blk] = 1 /\ weak[ret[u].blk] = 1

FailedTryNew(r) == r.op = "try_new" /\ r.res = "err"

\* C6 (as amended): a try_new whose allocation fails returns Err without
\* aborting, changes nothing of any block, handle or allocator account, and
\* hands back no handle; its argument, taken by value, was destroyed inside
\* the call.
C6_TryNewFailLeavesNothing ==
    [][ \A t \in Threads :
          (Completes(t) /\ FailedTryNew(ret'[t])) =>
              /\ UNCHANGED shared
              /\ ~aborted'
              /\ ret'[t].blk = Dangling
              /\ ret'[t].arg = "dropped"
      ]_vars

\* A try_new has failed while a block made by an earlier try_new is alive.
C6_Witness ==
    \E t \in Threads, b \in Blocks :
        /\ FailedTryNew(ret[t])
        /\ allocated[b] /\ freed[b] = 0 /\ arcs[b] > 0

\* C6 as stated: after a failed try_new no block was made and the value was
\* not moved: the caller still has it.
C6_Original ==
    \A t \in Threads :
        FailedTryNew(ret[t]) => (ret[t].blk = Dangling /\ ret[t].arg = "caller")

\* C7: the AllocError of a failed try_new carries the size and alignment
\* the allocator was asked for (the layout of the control block).
C7_ErrorCarriesRequestedLayout ==
    \A t \in Threads : FailedTryNew(ret[t]) => ret[t].layout = ret[t].req

\* C8: Arc::downgrade(&a) gives an observer handle to a's block, and an
\* upgrade that returns while an owning handle of the block exists returns
\* Some(b) with b ptr_eq to it.
C8_DowngradeUpgradeSameBlock ==
    [][ \A t \in Threads :
          /\ (pc[t] = "dg_cas" /\ Completes(t) /\ ret'[t].res = "ok") =>
                /\ ptr_eq(ret'[t].blk, blk[t])
                /\ weaks'[blk[t]] = weaks[blk[t]] + 1
                /\ empties' = empties
          /\ (pc[t] = "up_cas" /\ Completes(t) /\ arcs[blk[t]] > 0) =>
                /\ ret'[t].res = "some"
                /\ ptr_eq(ret'[t].blk, blk[t])
                /\ arcs'[blk[t]] = arcs[blk[t]] + 1
      ]_vars

\* An upgrade has returned Some for a block that has its first owning
\* handle, the new one and an observer handle, while a second block exists.
C8_Witness ==
    \E t \in Threads, b, c \in Blocks :
        /\ ret[t].op = "upgrade" /\ ret[t].res = "some" /\ ret[t].blk = b
        /\ arcs[b] >= 2 /\ weaks[b] >= 1
        /\ c # b /\ allocated[c]

EmptyHandleOps ==
    {"new", "upgrade", "weak_strong_count", "weak_weak_count", "clone_weak",
     "drop_weak"}

\* C9: every call on an empty observer handle (Weak::new or a clone of one)
\* leaves every block's counters, handles and storage as they were and makes
\* no allocation; upgrade returns None, both counts return 0, and a clone is
\* again an empty handle.
C9_EmptyWeakIsInert ==
    [][ \A t \in Threads :
          (Completes(t) /\ blk'[t] = Dangling /\ ret'[t].op \in EmptyHandleOps) =>
              /\ UNCHANGED <<strong, weak, data, allocated, freed, dropped,
                             arcs, weaks, aborted, leaked>>
              /\ ret'[t].blk = Dangling
              /\ ret'[t].op = "upgrade" => ret'[t].res = "none"
              /\ ret'[t].op \in {"weak_strong_count", "weak_weak_count"}
                    => ret'[t].val = 0
              /\ ret'[t].op \in {"new", "clone_weak"} => empties' = empties + 1
              /\ ret'[t].op = "drop_weak" => empties' = empties - 1
      ]_vars

\* An upgrade of an empty handle has returned None and the other thread has
\* read a count of an empty handle, while two empty handles and a live block
\* with an owning handle exist.
C9_Witness ==
    \E t, u \in Threads, b \in Blocks :
        /\ ret[t].op = "upgrade" /\ ret[t].blk = Dangling /\ ret[t].res = "none"
        /\ ret[u].op = "weak_strong_count" /\ ret[u].blk = Dangling
        /\ empties = 2
        /\ arcs[b] > 0

\* Clones of b between their increment and their guard, and those among
\* them whose guard will abort.
PendingClones(b) ==
    Cardinality({t \in Threads : pc[t] = "clone_check" /\ blk[t] = b})
AbortingClones(b) ==
    Cardinality({t \in Threads :
                    pc[t] = "clone_check" /\ blk[t] = b /\ CloneOverflows(reg[t])})

\* C10 (as amended): the strong counter never wraps: it always equals the
\* owning handles not dropped (leaked ones included) plus the clones that
\* have incremented and not yet returned, and it is at most
\* MAX_REFCOUNT + 1 plus the clones about to abort.  A clone returns a
\* handle only when it found at most MAX_REFCOUNT and aborts the process
\* otherwise; an upgrade that holds a value above MAX_REFCOUNT stops (panic
\* or abort) without changing the counter or returning a handle.
C10_StrongCounterGuarded ==
    /\ [](\A b \in Blocks :
            allocated[b] =>
                /\ strong[b] = arcs[b] + leaked[b] + PendingClones(b)
                /\ strong[b] <= MAX_REFCOUNT + 1 + AbortingClones(b))
    /\ [][ /\ (aborted' /\ ~aborted) =>
                /\ \E t \in Threads :
                      pc[t] \in {"clone_check", "up_cas"} /\ reg[t] > MAX_REFCOUNT
                /\ UNCHANGED <<strong, arcs>>
           /\ \A t \in Threads :
                /\ (pc[t] = "clone_check" /\ Completes(t)) =>
                      /\ reg[t] <= MAX_REFCOUNT
                      /\ ret'[t].res = "ok"
                /\ (pc[t] = "clone_check" /\ reg[t] > MAX_REFCOUNT) =>
                      pc'[t] = pc[t]
                /\ (pc[t] = "up_cas" /\ Completes(t) /\ reg[t] > MAX_REFCOUNT) =>
                      /\ ret'[t].res = "panic"
                      /\ UNCHANGED <<strong, arcs>>
                /\ (pc[t] = "up_cas" /\ Completes(t) /\ ret'[t].res = "some") =>
                      strong[blk[t]] <= MAX_REFCOUNT
         ]_vars

\* The process was aborted by a clone that found MAX_REFCOUNT + 1 in the
\* counter, which a clone before it had left there.
C10_Witness ==
    /\ aborted
    /\ \E t \in Threads :
          /\ pc[t] = "clone_check"
          /\ reg[t] = MAX_REFCOUNT + 1
          /\ strong[blk[t]] = MAX_REFCOUNT + 2

\* C10 as stated: in every state that is not the abort state the strong
\* counter is at most the threshold and counts the outstanding owning
\* handles.
C10_Original ==
    ~aborted =>
        \A b \in Blocks :
            allocated[b] =>
                /\ strong[b] <= MAX_REFCOUNT
                /\ strong[b] = arcs[b] + leaked[b] + PendingClones(b)

\* No call on block b is between its first and its last step.
Quiescent(b) == \A t \in Threads : ~InFlight(t, b)

C12_WeakCounts ==
    [][ \A t \in Threads :
          /\ (Completes(t) /\ ret'[t].op = "weak_weak_count") =>
                LET w == ret'[t].blk IN
                /\ w = blk'[t]
                /\ w = Dangling => ret'[t].val = 0
                /\ (w # Dangling /\ strong[w] = 0) => ret'[t].val = 0
                /\ (w # Dangling /\ strong[w] > 0) => ret'[t].val = reg[t] - 1
          /\ (Completes(t) /\ ret'[t].op = "weak_strong_count") =>
                LET w == ret'[t].blk IN
                /\ w = blk'[t]
                /\ w = Dangling => ret'[t].val = 0
                /\ w # Dangling =>
                      /\ ret'[t].val = strong[w]
                      /\ ret'[t].val = arcs[w] + PendingClones(w)
      ]_vars

\* Weak::weak_count has returned 0 on a block without owners that two
\* observer handles refer to, and Weak::strong_count has returned 0 on an
\* empty handle.
C12_Witness ==
    \E t, u \in Threads, b \in Blocks :
        /\ ret[t].op = "weak_weak_count" /\ ret[t].blk = b /\ ret[t].val = 0
        /\ strong[b] = 0 /\ weaks[b] = 2 /\ freed[b] = 0
        /\ ret[u].op = "weak_strong_count" /\ ret[u].blk = Dangling
        /\ ret[u].val = 0 /\ empties = 1

\* The owning handles of b still hold their implicit weak reference: an
\* owner is left, or the last drop has not yet released it.
ImplicitWeakHeld(b) ==
    \/ strong[b] >= 1
    \/ \E t \in Threads : blk[t] = b /\ pc[t] \in {"drop_data", "drop_weak"}

\* C13: in every reachable state no counter of a block has gone below 0
\* (as unsigned values: none has wrapped), weak >= 1 whenever strong >= 1,
\* and weak counts the Weak handles plus the one implicit reference of the
\* owning handles, which is held from the block's birth until the drop that
\* brought strong to 0 releases it.
C13_CountersInRange ==
    \A b \in Blocks :
        allocated[b] =>
            /\ strong[b] \in 0 .. MAX_REFCOUNT
            /\ weak[b] \in 0 .. MAX_REFCOUNT
            /\ strong[b] = arcs[b] + PendingClones(b)
            /\ strong[b] >= 1 => weak[b] >= 1
            /\ weak[b] = weaks[b] + (IF ImplicitWeakHeld(b) THEN 1 ELSE 0)

\* One block has an owner and an observer (weak = 2) while another has lost
\* its owners, has released the implicit reference and keeps one observer
\* (strong = 0, weak = 1).
C13_Witness ==
    \E b, c \in Blocks :
        /\ strong[b] = 1 /\ weak[b] = 2 /\ weaks[b] = 1
        /\ allocated[c] /\ strong[c] = 0 /\ weak[c] = 1 /\ weaks[c] = 1
        /\ ~ImplicitWeakHeld(c)

\* C14 (as amended): while strong > 0 the payload has not been destroyed,
\* holds the value it was built with and an owning handle to read it
\* through exists; once strong = 0 no owning handle exists, and the payload
\* has been destroyed except while the drop that took strong from 1 to 0 is
\* between its decrement and the destructor call, where the payload is not
\* yet destroyed although strong = 0.
C14_PayloadAliveWhileOwned ==
    \A b \in Blocks :
        allocated[b] =>
            /\ strong[b] > 0 <=> arcs[b] > 0
            /\ strong[b] > 0 => (dropped[b] = 0 /\ data[b] = ctorArg[b])
            /\ dropped[b] = 0 <=> (strong[b] > 0 \/ Destroying(b))
            /\ Destroying(b) => strong[b] = 0

\* The last owner's drop has taken strong to 0 and has not yet run the
\* destructor, while an observer handle exists and the other thread has
\* read the payload through a handle of another block.
C14_Witness ==
    \E b, c \in Blocks, t \in Threads :
        /\ Destroying(b) /\ strong[b] = 0 /\ dropped[b] = 0 /\ weaks[b] = 1
        /\ ret[t].op = "deref" /\ ret[t].blk = c /\ strong[c] > 0
        /\ ret[t].val = ctorArg[c]

\* C14 as stated: in every state, the intermediate states of the last drop
\* included, the payload is not yet destroyed exactly when strong > 0.
C14_Original ==
    \A b \in Blocks : allocated[b] => (dropped[b] = 0 <=> strong[b] > 0)

\* The states of a control block.  Releasing storage: the drop that brought
\* weak to 0 has not yet handed the storage back.
Live(b) == allocated[b] /\ freed[b] = 0 /\ strong[b] > 0
WeakOnly(b) == allocated[b] /\ freed[b] = 0 /\ strong[b] = 0 /\ weak[b] > 0
Freeing(b) == allocated[b] /\ freed[b] = 0 /\ strong[b] = 0 /\ weak[b] = 0
Dead(b) == allocated[b] /\ freed[b] > 0
StateRank(b) ==
    IF ~allocated[b] THEN 0
    ELSE IF Live(b) THEN 1
    ELSE IF WeakOnly(b) THEN 2
    ELSE IF Freeing(b) THEN 3
    ELSE 4

\* C15: a block only moves forward, Live -> WeakOnly -> Dead.  It leaves
\* Live exactly in the step of an Arc drop that takes strong from 1 to 0,
\* and is WeakOnly then; it leaves WeakOnly exactly in the step of a drop
\* (of a Weak, or the release of the implicit reference by the last Arc
\* drop) that takes weak from 1 to 0, and that same drop's next step
\* deallocates it; a block that is WeakOnly is never Live again, and a Dead
\* block stays Dead.
C15_ForwardOnly ==
    [][ \A b \in Blocks :
          /\ StateRank(b)' >= StateRank(b)
          /\ StateRank(b)' <= StateRank(b) + 1
          /\ (Live(b) /\ ~Live(b)') =>
                /\ WeakOnly(b)'
                /\ strong[b] = 1 /\ arcs'[b] = arcs[b] - 1
                /\ \E t \in Threads :
                      pc[t] = "idle" /\ pc'[t] = "drop_data" /\ blk'[t] = b
          /\ (strong[b] = 1 /\ strong'[b] = 0) => (Live(b) /\ WeakOnly(b)')
          /\ (WeakOnly(b) /\ ~WeakOnly(b)') =>
                /\ Freeing(b)'
                /\ weak[b] = 1
                /\ \E t \in Threads :
                      /\ pc[t] \in {"idle", "drop_weak"}
                      /\ pc'[t] \in {"dealloc_arc", "dealloc_weak"}
                      /\ blk'[t] = b
          /\ (weak[b] = 1 /\ weak'[b] = 0) => (WeakOnly(b) /\ Freeing(b)')
          /\ (Freeing(b) /\ ~Freeing(b)') =>
                /\ Dead(b)'
                /\ \E t \in Threads :
                      /\ pc[t] \in {"dealloc_arc", "dealloc_weak"}
                      /\ blk[t] = b
                      /\ Completes(t)
          /\ Dead(b) => (Dead(b)' /\ strong'[b] = 0 /\ weak'[b] = 0)
      ]_vars

\* One block is Dead, deallocated by the drop of its last observer handle,
\* while another is WeakOnly after the drop of its last owning handle.
C15_Witness ==
    \E b, c \in Blocks, t, u \in Threads :
        /\ Dead(b) /\ ret[t].op = "drop_weak" /\ ret[t].blk = b
        /\ WeakOnly(c) /\ weaks[c] = 1 /\ ret[u].op = "drop" /\ ret[u].blk = c

\* C16 (as amended): the storage is deallocated by the drop that takes weak
\* to 0.  The Arc drop that took strong to 0 deallocates the storage itself
\* exactly when no observer handle exists as it releases the implicit
\* reference (so always when none existed as it took strong to 0: none can
\* appear afterwards); the drop of the last observer handle deallocates it
\* exactly when that release has already happened.  The storage is never
\* deallocated while an observer handle exists, and once every handle has
\* been dropped and the drops have returned the block is Dead.
C16_LastReleaseDeallocates ==
    /\ [](\A b \in Blocks :
            /\ weaks[b] > 0 => freed[b] = 0
            /\ (allocated[b] /\ arcs[b] = 0 /\ weaks[b] = 0 /\ Quiescent(b))
                  => Dead(b))
    /\ [][ \A b \in Blocks :
             /\ (allocated[b] /\ strong[b] = 0 /\ weaks[b] = 0) => weaks'[b] = 0
             /\ \A t \in Threads :
                   /\ (blk[t] = b /\ pc[t] = "drop_weak" /\ pc'[t] # pc[t]) =>
                         (pc'[t] = "dealloc_arc" <=> weaks[b] = 0)
                   /\ (blk'[t] = b /\ pc[t] = "idle" /\ pc'[t] # pc[t]
                          /\ weaks[b] = 1 /\ weaks'[b] = 0) =>
                         /\ pc'[t] = "dealloc_weak" <=> ~ImplicitWeakHeld(b)
                         /\ pc'[t] # "dealloc_weak" =>
                               (pc'[t] = "ret" /\ freed'[b] = 0)
                   /\ (blk[t] = b /\ pc[t] \in {"dealloc_arc", "dealloc_weak"}
                          /\ pc'[t] # pc[t]) =>
                         (freed[b] = 0 /\ freed'[b] = 1)
          ]_vars

\* The last observer handle of a block has been dropped without
\* deallocating it, because the last Arc drop of the block has not yet
\* released the implicit reference: that Arc drop will deallocate.
C16_Witness ==
    \E b \in Blocks, t, u \in Threads :
        /\ pc[t] = "drop_weak" /\ blk[t] = b
        /\ ret[u].op = "drop_weak" /\ ret[u].blk = b
        /\ weaks[b] = 0 /\ weak[b] = 1 /\ freed[b] = 0

\* C16 as stated: when observer handles exist after strong has reached 0,
\* the drop of the last of them deallocates the storage.
C16_Original ==
    [][ \A b \in Blocks :
          (allocated[b] /\ strong[b] = 0 /\ weaks[b] = 1 /\ weaks'[b] = 0) =>
              \E t \in Threads : blk'[t] = b /\ pc'[t] = "dealloc_weak"
      ]_vars

\* Thread t takes a step of a call of the given kind: the call's first
\* step, a turn of its loop, or its last step.
StepOf(t, first, loop) ==
    \/ pc[t] = "idle" /\ pc'[t] = loop
    \/ pc[t] = loop /\ (pc'[t] # pc[t] \/ reg'[t] # reg[t])
    \/ pc[t] = "idle" /\ Completes(t) /\ ret'[t].op = first

\* C17: every step of a Weak::upgrade that does not return Some leaves both
\* counters of every block and all other shared state as they were; the
\* step in which an upgrade returns Some adds exactly 1 to the strong
\* counter of its block (one more owning handle) and changes nothing else:
\* weak is as it was and the observer handle still exists.  The step in
\* which Arc::downgrade succeeds adds exactly 1 to weak (one more observer
\* handle) and changes nothing else: strong and the owning handle are as
\* they were.  An Arc clone adds exactly 1 to strong in its first step and
\* hands out the new handle in its second; weak is as it was.
C17_FrameEffects ==
    [][ \A t \in Threads :
          /\ StepOf(t, "upgrade", "up_cas") =>
                IF Completes(t) /\ ret'[t].res = "some"
                THEN LET b == blk[t] IN
                     /\ strong' = [strong EXCEPT ![b] = strong[b] + 1]
                     /\ arcs' = [arcs EXCEPT ![b] = arcs[b] + 1]
                     /\ weaks'[b] >= 1
                     /\ UNCHANGED <<weak, data, allocated, freed, dropped,
                                    ctorArg, weaks, empties, leaked, aborted>>
                ELSE UNCHANGED shared
          /\ StepOf(t, "downgrade", "dg_cas") =>
                IF Completes(t) /\ ret'[t].res = "ok"
                THEN LET b == blk[t] IN
                     /\ weak' = [weak EXCEPT ![b] = weak[b] + 1]
                     /\ weaks' = [weaks EXCEPT ![b] = weaks[b] + 1]
                     /\ arcs'[b] >= 1
                     /\ UNCHANGED <<strong, data, allocated, freed, dropped,
                                    ctorArg, arcs, empties, leaked, aborted>>
                ELSE UNCHANGED shared
          /\ (pc[t] = "idle" /\ pc'[t] = "clone_check") =>
                LET b == blk'[t] IN
                /\ strong' = [strong EXCEPT ![b] = strong[b] + 1]
                /\ arcs[b] >= 1
                /\ UNCHANGED <<weak, data, allocated, freed, dropped, ctorArg,
                               arcs, weaks, empties, leaked, aborted>>
          /\ (pc[t] = "clone_check" /\ pc'[t] # pc[t]) =>
                LET b == blk[t] IN
                /\ Completes(t) /\ ret'[t].op = "clone"
                /\ arcs' = [arcs EXCEPT ![b] = arcs[b] + 1]
                /\ UNCHANGED <<strong, weak, data, allocated, freed, dropped,
                               ctorArg, weaks, empties, leaked, aborted>>
      ]_vars

\* An upgrade has failed on a WeakOnly block that keeps its observer handle
\* and its counters, and a downgrade has succeeded on another block, which
\* has strong = 1 and weak = 2.
C17_Witness ==
    \E b, c \in Blocks, t, u \in Threads :
        /\ ret[t].op = "upgrade" /\ ret[t].res = "none" /\ ret[t].blk = b
        /\ WeakOnly(b) /\ weaks[b] = 1 /\ weak[b] = 1
        /\ ret[u].op = "downgrade" /\ ret[u].res = "ok" /\ ret[u].blk = c
        /\ strong[c] = 1 /\ weak[c] = 2 /\ arcs[c] = 1 /\ weaks[c] = 1

\* Thread t takes a turn of the upgrade loop; the turn is a failed
\* compare-and-swap when the call is still in the loop after it.
UpgradeLoopStep(t) ==
    /\ pc[t] = "up_cas"
    /\ (pc'[t] # pc[t] \/ reg'[t] # reg[t] \/ spurious'[t] # spurious[t])
FailedCas(t) == UpgradeLoopStep(t) /\ pc'[t] = "up_cas"

\* From some point on nothing but t's own upgrade changes the strong
\* counter of the block t's call is on.
OthersChangeFinitely(t) ==
    <>[][ pc[t] = "up_cas" =>
             (strong'[blk[t]] = strong[blk[t]] \/ Completes(t)) ]_vars

\* C18 (as amended): the upgrade loop has no retry limit: a failed
\* compare-and-swap changes nothing shared and is always followed by another
\* turn with the value found, however many turns came before; the call
\* returns only None on reading 0 or Some on a compare-and-swap that found
\* the value read.  A compare-and-swap fails either because the counter no
\* longer held the value read, which only a successful step of another
\* thread's call on the block brings about, or spuriously, with the counter
\* unchanged.  If from some point on no other call changes the counter, and
\* the compare-and-swap does not fail spuriously for ever, the upgrade
\* returns.
C18_RetryLoop ==
    /\ [][ \A t \in Threads :
             LET b == blk[t] IN
             /\ FailedCas(t) =>
                   /\ UNCHANGED shared
                   /\ checked_increment(reg[t]) = "some"
                   /\ strong[b] # reg[t] \/ spurious'[t]
                   /\ reg'[t] = strong[b]
             /\ (UpgradeLoopStep(t) /\ reg[t] # 0 /\ strong[b] # reg[t]) =>
                   FailedCas(t)
             /\ (UpgradeLoopStep(t) /\ Completes(t)) =>
                   /\ ret'[t].res \in {"some", "none"}
                   /\ ret'[t].res = "none" <=> reg[t] = 0
                   /\ ret'[t].res = "some" => strong[b] = reg[t]
             /\ (pc[t] = "up_cas" /\ pc'[t] = "up_cas"
                    /\ strong'[b] # strong[b]) =>
                   \E u \in Threads \ {t} : pc'[u] # pc[u] /\ blk'[u] = b
          ]_vars
    /\ \A t \in Threads :
          OthersChangeFinitely(t) => (pc[t] = "up_cas" ~> pc[t] = "ret")

\* An upgrade has returned Some after a spurious failure of its
\* compare-and-swap, while the other thread has cloned an owning handle of
\* the same block.
C18_Witness ==
    \E t, u \in Threads :
        /\ ret[t].op = "upgrade" /\ ret[t].res = "some" /\ spurious[t]
        /\ ret[u].op = "clone" /\ ret[u].blk = ret[t].blk

\* C18 as stated: whenever the compare-and-swap of an upgrade fails, the
\* strong counter was changed between the read and the compare-and-swap.
C18_Original ==
    [][ \A t \in Threads : FailedCas(t) => strong[blk[t]] # reg[t] ]_vars

\* The temporary owning handles that encodings in progress hold on b.
Temps(b) == Cardinality({t \in Threads : pc[t] = "ser_some" /\ blk[t] = b})
SerPcs == {"ser_cas", "ser_some", "ser_drop_data", "ser_drop_weak"}

\* Thread t takes a step of an encoding.
SerializeStep(t) ==
    \/ /\ pc[t] = "idle"
       /\ pc'[t] = "ser_cas" \/ (Completes(t) /\ ret'[t].op = "serialize")
    \/ pc[t] \in SerPcs /\ (pc'[t] # pc[t] \/ reg'[t] # reg[t])

\* The implicit reference of b's owners is held, the encodings that hold
\* the last owning handle counted.
ImplicitWeakHeldSerde(b) ==
    \/ ImplicitWeakHeld(b)
    \/ \E t \in Threads :
          blk[t] = b /\ pc[t] \in {"ser_drop_data", "ser_drop_weak"}

\* C19 (as amended): decoding changes no block and yields the empty handle
\* whatever was encoded (its upgrade returns None and its counts 0), or an
\* error and no handle for a malformed input.  An encoding writes the
\* payload exactly when its upgrade got a temporary owning handle, adds 1
\* to strong for that handle and takes 1 off when it releases it, so that
\* strong always counts the owning handles and the temporary ones; it
\* leaves weak as it was unless the temporary handle was the last owning
\* handle left: then the encoding runs the payload's destructor and
\* releases the implicit weak reference.  The handle encoded stays valid
\* and the storage allocated.
C19_SerdeOneWay ==
    /\ [](\A b \in Blocks :
            allocated[b] =>
                /\ strong[b] = arcs[b] + Temps(b)
                /\ weak[b] = weaks[b] + (IF ImplicitWeakHeldSerde(b) THEN 1 ELSE 0))
    /\ [][ \A t \in Threads :
             /\ (Completes(t) /\ ret'[t].op = "deserialize") =>
                   /\ UNCHANGED <<strong, weak, data, allocated, freed,
                                  dropped, arcs, weaks>>
                   /\ ret'[t].blk = Dangling /\ blk'[t] = Dangling
                   /\ ret'[t].res = "ok" => empties' = empties + 1
                   /\ ret'[t].res # "ok" => empties' = empties
             /\ (Completes(t) /\ blk'[t] = Dangling) =>
                   /\ ret'[t].op = "upgrade" => ret'[t].res = "none"
                   /\ ret'[t].op \in {"weak_strong_count", "weak_weak_count"}
                         => ret'[t].val = 0
             /\ SerializeStep(t) =>
                   LET b == blk'[t] IN
                   /\ UNCHANGED <<data, allocated, freed, arcs, weaks, empties>>
                   /\ (pc[t] = "ser_cas" /\ pc'[t] = "ser_some") =>
                         /\ strong' = [strong EXCEPT ![b] = strong[b] + 1]
                         /\ UNCHANGED <<weak, dropped>>
                   /\ pc[t] = "ser_some" =>
                         /\ strong' = [strong EXCEPT ![b] = strong[b] - 1]
                         /\ UNCHANGED <<weak, dropped>>
                         /\ dropped[b] = 0 /\ reg'[t] = ctorArg[b]
                         /\ pc'[t] = "ser_drop_data" <=> strong'[b] = 0
                   /\ pc[t] = "ser_drop_data" =>
                         /\ strong[b] = 0 /\ arcs[b] = 0
                         /\ dropped' = [dropped EXCEPT ![b] = 1]
                         /\ UNCHANGED <<strong, weak>>
                   /\ pc[t] = "ser_drop_weak" =>
                         /\ weak' = [weak EXCEPT ![b] = weak[b] - 1]
                         /\ weak'[b] >= 1
                         /\ UNCHANGED <<strong, dropped>>
                   /\ (pc[t] \in {"idle", "ser_cas"} /\ pc'[t] # "ser_some") =>
                         UNCHANGED <<strong, weak, dropped>>
                   /\ Completes(t) =>
                         /\ ret'[t].res \in {"some", "none"}
                         /\ ret'[t].res = "some" =>
                               (pc[t] # "ser_cas" /\ ret'[t].val = ctorArg[b])
                         /\ ret'[t].res = "none" => pc[t] \in {"idle", "ser_cas"}
                         /\ b # Dangling => weaks'[b] >= 1
          ]_vars

\* The encoding of a live block's observer handle has written the payload
\* 42 and left the block with its one owner and one observer (strong = 1,
\* weak = 2), and the decoding of an encoded 42 has given the empty handle.
C19_Witness ==
    \E t, u \in Threads, b \in Blocks :
        /\ ret[u].op = "serialize" /\ ret[u].res = "some" /\ ret[u].val = 42
        /\ ret[u].blk = b /\ strong[b] = 1 /\ weak[b] = 2
        /\ arcs[b] = 1 /\ weaks[b] = 1
        /\ ret[t].op = "deserialize" /\ ret[t].res = "ok" /\ ret[t].val = 42
        /\ ret[t].arg = "dropped" /\ ret[t].blk = Dangling /\ empties = 1

\* C19 as stated: an encoding changes the strong counter for its temporary
\* handle only and never changes the weak counter.
C19_Original ==
    [][ \A t \in Threads : SerializeStep(t) => weak' = weak ]_vars
====
